---------------------------- MODULE Spec2Model ----------------------------
(* A model of the tarkov-database tileserver: the mbtiles package          *)
(* (LoadTilesets, NewTileset, ParseTileCoord, GetTile, GetGrid,            *)
(* GetMetadata), the model package (GetTile, GetGrid, GetTileJSON) and the *)
(* controller (TileGET, TileJSONGET).                                      *)
(*                                                                         *)
(* Strings are sequences of one-character strings. A byte slice is its     *)
(* leading bytes together with the document the rest of it holds. uint64   *)
(* values are four 16-bit limbs (least significant first), so that shifts, *)
(* comparisons and wrap-around behave as they do on the machine type.      *)
EXTENDS Integers, Sequences, FiniteSets, TLC

VARIABLES
    files,      \* the directory listing read by LoadTilesets (archives with their content)
    idx,        \* position of the spawning loop of LoadTilesets in files
    f,          \* the loop variable f of LoadTilesets, shared with the load goroutines
    mpc,        \* program counter of the goroutine running LoadTilesets
    tasks,      \* the load goroutines, in spawn order
    ch,         \* buffer of the result channel ch
    closed,     \* whether ch has been closed
    wg,         \* counter of the WaitGroup wg
    cpc,        \* program counter of the closing goroutine
    tilesets,   \* the package-level registry map
    calls,      \* the files passed to NewTileset so far, in call order
    req,        \* the operation last invoked, with its inputs
    res         \* what that operation returned

vars == <<files, idx, f, mpc, tasks, ch, closed, wg, cpc, tilesets, calls, req, res>>

loadVars == <<files, idx, f, mpc, tasks, ch, closed, wg, cpc, tilesets, calls>>

-----------------------------------------------------------------------------
(* Strings *)

Chr == [d \in 0..9 |-> CASE d = 0 -> "0" [] d = 1 -> "1" [] d = 2 -> "2" [] d = 3 -> "3"
                         [] d = 4 -> "4" [] d = 5 -> "5" [] d = 6 -> "6" [] d = 7 -> "7"
                         [] d = 8 -> "8" [] d = 9 -> "9"]

DigitChars == {Chr[d] : d \in 0..9}

DigitVal(c) == CHOOSE d \in 0..9 : Chr[d] = c

\* the string spelled by a tuple of decimal digits
Str(ds) == [k \in 1..Len(ds) |-> Chr[ds[k]]]

\* strconv.FormatUint(n, 10) for the numbers the inputs are built from
RECURSIVE Dec(_)
Dec(n) == IF n < 10 THEN <<Chr[n]>> ELSE Append(Dec(n \div 10), Chr[n % 10])

\* strings.LastIndex(s, c) for a one-character c, 1-based; 0 when absent
LastIndex(s, c) ==
    IF \E k \in 1..Len(s) : s[k] = c
    THEN CHOOSE k \in 1..Len(s) : s[k] = c /\ \A j \in (k+1)..Len(s) : s[j] # c
    ELSE 0

-----------------------------------------------------------------------------
(* uint64 *)

LimbBase == 65536

Limbs == 4

RECURSIVE Pow2(_)
Pow2(n) == IF n = 0 THEN 1 ELSE 2 * Pow2(n - 1)

U64Zero == <<0, 0, 0, 0>>

U64Max == <<LimbBase - 1, LimbBase - 1, LimbBase - 1, LimbBase - 1>>

\* a natural number below 2^31 as a uint64
U64(n) == <<n % LimbBase, n \div LimbBase, 0, 0>>

\* a uint64 whose upper limbs are zero as a natural number
U64Small(a) == a[3] = 0 /\ a[4] = 0 /\ a[2] < LimbBase \div 2

ToNat(a) == a[1] + LimbBase * a[2]

U64Lt(a, b) ==
    \E k \in 1..Limbs : a[k] < b[k] /\ \A j \in (k+1)..Limbs : a[j] = b[j]

U64Ge(a, b) == ~U64Lt(a, b)

\* a - b modulo 2^64
U64Sub(a, b) ==
    LET d1 == a[1] - b[1]
        w1 == IF d1 < 0 THEN 1 ELSE 0
        d2 == a[2] - b[2] - w1
        w2 == IF d2 < 0 THEN 1 ELSE 0
        d3 == a[3] - b[3] - w2
        w3 == IF d3 < 0 THEN 1 ELSE 0
        d4 == a[4] - b[4] - w3
    IN  <<d1 % LimbBase, d2 % LimbBase, d3 % LimbBase, d4 % LimbBase>>

\* uint64(1) << s: a shift count of 64 or more leaves zero
Shl1(s) ==
    IF s >= 64 THEN U64Zero
    ELSE [k \in 1..Limbs |-> IF s \div 16 = k - 1 THEN Pow2(s % 16) ELSE 0]

\* a * 10 + d with the carry out of the top limb
MulAdd10(a, d) ==
    LET p1 == a[1] * 10 + d
        p2 == a[2] * 10 + p1 \div LimbBase
        p3 == a[3] * 10 + p2 \div LimbBase
        p4 == a[4] * 10 + p3 \div LimbBase
    IN  [val |-> <<p1 % LimbBase, p2 % LimbBase, p3 % LimbBase, p4 % LimbBase>>,
         carry |-> p4 \div LimbBase]

\* 2^bits - 1 as a uint64, for bits in {8, 64}
MaxVal(bits) == IF bits = 8 THEN U64(255) ELSE U64Max

\* strconv.ParseUint(s, 10, bits): the value and the error ("" for nil).
\* A syntax error returns 0, a range error returns the largest value of the width.
RECURSIVE ParseDigits(_, _, _, _)
ParseDigit(s, k, m, bits) ==
    IF m.carry # 0 \/ U64Lt(MaxVal(bits), m.val)
    THEN [val |-> MaxVal(bits), err |-> "range"]
    ELSE ParseDigits(s, k + 1, m.val, bits)

ParseDigits(s, k, n, bits) ==
    IF k > Len(s) THEN [val |-> n, err |-> ""]
    ELSE IF s[k] \notin DigitChars THEN [val |-> U64Zero, err |-> "syntax"]
    ELSE ParseDigit(s, k, MulAdd10(n, DigitVal(s[k])), bits)

ParseUint(s, bits) ==
    IF Len(s) = 0 THEN [val |-> U64Zero, err |-> "syntax"]
    ELSE ParseDigits(s, 1, U64Zero, bits)

-----------------------------------------------------------------------------
(* Errors *)

ErrTilesetNotFound == "tileset not found"

ErrTileNotFound == "tile not found"

ErrNoUTFGrid == "tileset does not contain UTF grids"

ErrInvalidTileCoord == "tile coordinates are not valid"

ErrUnknownTileFormatPattern == "unknown tile format pattern"

ErrNoRows == "sql: no rows in result set"

ErrStorage == "sql: storage failure"

NoErr == ""


-----------------------------------------------------------------------------
(* ParseTileCoord *)

\* the row left in the caller-facing scheme
FlipYNoFlip(z, y) == y

\* tc.Y = (1 << uint64(tc.Z)) - 1 - tc.Y

FlipY(z, y) == U64Sub(U64Sub(Shl1(z), U64(1)), y)

\* tc.X >= (1 << z64)
OutOfBounds(v, z) == U64Ge(v, Shl1(z))

\* s := y; if l := strings.LastIndex(s, "."); l >= 0 { s = s[:l] }
StripExt(y) ==
    LET l == LastIndex(y, ".")
    IN  IF l > 0 THEN SubSeq(y, 1, l - 1) ELSE y

\* a *TileCoord: the nil pointer, or a pointer to a TileCoord{Z, X, Y}
NilTC == [nil |-> TRUE, Z |-> 0, X |-> U64Zero, Y |-> U64Zero]

TC(z, x, y) == [nil |-> FALSE, Z |-> z, X |-> x, Y |-> y]

\* ParseTileCoord from the row on: parse, range check, flip
ParseTileCoordY(z64, xv, py) ==
    IF py.err # NoErr
    THEN [tc |-> TC(z64, xv, py.val), err |-> ErrInvalidTileCoord, cause |-> "parse y"]
    ELSE IF OutOfBounds(py.val, z64)
    THEN [tc |-> TC(z64, xv, py.val), err |-> ErrInvalidTileCoord, cause |-> "oob y"]
    ELSE [tc |-> TC(z64, xv, FlipY(z64, py.val)), err |-> NoErr, cause |-> ""]

\* ParseTileCoord from the column on: tc is allocated, the column parsed and checked
ParseTileCoordX(z64, px, y) ==
    IF px.err # NoErr
    THEN [tc |-> TC(z64, px.val, U64Zero), err |-> ErrInvalidTileCoord, cause |-> "parse x"]
    ELSE IF OutOfBounds(px.val, z64)
    THEN [tc |-> TC(z64, px.val, U64Zero), err |-> ErrInvalidTileCoord, cause |-> "oob x"]
    ELSE ParseTileCoordY(z64, px.val, ParseUint(StripExt(y), 64))

ParseTileCoordZ(pz, x, y) ==
    IF pz.err # NoErr
    THEN [tc |-> NilTC, err |-> ErrInvalidTileCoord, cause |-> "parse z"]
    ELSE ParseTileCoordX(ToNat(pz.val), ParseUint(x, 64), y)

\* the pair (tc, err) that ParseTileCoord returns through its named results
ParseTileCoord(z, x, y) == ParseTileCoordZ(ParseUint(z, 8), x, y)

-----------------------------------------------------------------------------
(* The loader at rest: the state of LoadTilesets when it is not running *)

LoadIdle ==
    /\ files = <<>>
    /\ idx = 0
    /\ f = 0
    /\ mpc = "idle"
    /\ tasks = <<>>
    /\ ch = <<>>
    /\ closed = FALSE
    /\ wg = 0
    /\ cpc = "none"
    /\ tilesets = <<>>
    /\ calls = <<>>

Pending == [pc |-> "call"]

-----------------------------------------------------------------------------
(* SpecParse: ParseTileCoord applied to bounded inputs *)

\* the largest zoom whose coordinates are enumerated as numbers
MaxZoom == 22

\* columns and rows around the edges of the grid of zoom n
Near(n) == {0, 1, Pow2(n) \div 2, Pow2(n) - 1, Pow2(n)} \ {-1}

InRange(n) == {v \in Near(n) : v < Pow2(n)}

ExtPng == <<".", "p", "n", "g">>

ExtJson == <<".", "j", "s", "o", "n">>

Malformed == {<<>>, <<"a">>, <<"-", "1">>, <<"1", "x">>}

\* 2^63-1, 2^63, 2^64-1, 2^64
BigStrings ==
    { Str(<<9,2,2,3,3,7,2,0,3,6,8,5,4,7,7,5,8,0,7>>),
      Str(<<9,2,2,3,3,7,2,0,3,6,8,5,4,7,7,5,8,0,8>>),
      Str(<<1,8,4,4,6,7,4,4,0,7,3,7,0,9,5,5,1,6,1,5>>),
      Str(<<1,8,4,4,6,7,4,4,0,7,3,7,0,9,5,5,1,6,1,6>>) }

WideZooms == {Str(<<6,3>>), Str(<<6,4>>), Str(<<6,5>>), Str(<<2,5,5>>), Str(<<2,5,6>>)}

WithExt(S) == S \cup {s \o ExtPng : s \in S} \cup {Str(<<1>>) \o <<".", "5">> \o ExtJson}

ParseInputs ==
    {[op |-> "ParseTileCoord", z |-> Dec(n), x |-> x, y |-> y] :
        n \in {m \in 0..MaxZoom : TRUE},
        x \in {Dec(v) : v \in {0, 1, 2, 3, 4}} \cup Malformed,
        y \in WithExt({Dec(v) : v \in {0, 1, 2, 3, 4}} \cup Malformed)}
    \cup
    UNION {{[op |-> "ParseTileCoord", z |-> Dec(n), x |-> Dec(xv), y |-> y] :
                xv \in Near(n), y \in WithExt({Dec(v) : v \in Near(n)})} : n \in 0..MaxZoom}
    \cup
    {[op |-> "ParseTileCoord", z |-> z, x |-> x, y |-> y] :
        z \in WideZooms \cup Malformed,
        x \in BigStrings \cup {Dec(0), Dec(1)} \cup Malformed,
        y \in WithExt(BigStrings \cup {Dec(0), Dec(1)})}

InitParse ==
    /\ LoadIdle
    /\ req \in ParseInputs
    /\ res = Pending

CallParseTileCoord ==
    /\ req.op = "ParseTileCoord"
    /\ res = Pending
    /\ res' = [pc |-> "ret"] @@ ParseTileCoord(req.z, req.x, req.y)
    /\ UNCHANGED <<req, loadVars>>

NextParse == CallParseTileCoord

SpecParse == InitParse /\ [][NextParse]_vars

Returned(op) == req.op = op /\ res.pc = "ret"

\* C7: for every zoom n in 0..MaxZoom and column, row below 2^n, ParseTileCoord on
\* their decimal strings succeeds, returns the column unchanged and returns
\* the row flipped to 2^n - 1 - row.
C7_FlipOnValidInput ==
    \A n \in 0..MaxZoom : \A xv \in InRange(n), yv \in InRange(n) :
        (Returned("ParseTileCoord") /\ req.z = Dec(n) /\ req.x = Dec(xv) /\ req.y = Dec(yv))
            => /\ res.err = NoErr
               /\ ~res.tc.nil
               /\ res.tc.Z = n
               /\ res.tc.X = U64(xv)
               /\ res.tc.Y = U64(Pow2(n) - 1 - yv)

C7_Witness ==
    /\ Returned("ParseTileCoord")
    /\ req.z = Dec(MaxZoom) /\ req.x = Dec(Pow2(MaxZoom) - 1) /\ req.y = Dec(1)
    /\ res.err = NoErr
    /\ res.tc.Y = U64(Pow2(MaxZoom) - 2)

\* v < 2^z for a uint64 v, with 2^z the mathematical power: every uint64 is
\* below 2^z once z reaches 64
BelowPow2(v, z) ==
    \/ z >= 64
    \/ U64Lt(v, [k \in 1..Limbs |-> IF z \div 16 = k - 1 THEN Pow2(z % 16) ELSE 0])

\* C6: every TileCoord that ParseTileCoord hands back, on any return path, has
\* X < 2^Z and Y < 2^Z, and a failing call hands back nil.
C6_ReturnedCoordInRange ==
    Returned("ParseTileCoord") =>
        /\ (res.err # NoErr => res.tc.nil)
        /\ (~res.tc.nil => BelowPow2(res.tc.X, res.tc.Z) /\ BelowPow2(res.tc.Y, res.tc.Z))

\* the three fields of the request parse as a zoom of 8 bits and two uint64
WellFormed(r) ==
    /\ ParseUint(r.z, 8).err = NoErr
    /\ ParseUint(r.x, 64).err = NoErr
    /\ ParseUint(StripExt(r.y), 64).err = NoErr

\* C8: for a zoom in 0..255 and uint64 column and row, ParseTileCoord fails as
\* out of range exactly when column >= 2^zoom or row >= 2^zoom, and accepts
\* every other coordinate, also at zoom 64..255.
C8_OutOfRangeExactly ==
    (Returned("ParseTileCoord") /\ WellFormed(req)) =>
        LET zn == ToNat(ParseUint(req.z, 8).val)
            inside == /\ BelowPow2(ParseUint(req.x, 64).val, zn)
                      /\ BelowPow2(ParseUint(StripExt(req.y), 64).val, zn)
        IN  /\ inside => res.err = NoErr
            /\ ~inside => res.err = ErrInvalidTileCoord /\ res.cause \in {"oob x", "oob y"}

-----------------------------------------------------------------------------
(* Tile formats and detectTileFormat *)

UNKNOWN == "UNKNOWN"

PBF == "PBF"

PNG == "PNG"

JPG == "JPG"

WEBP == "WEBP"

GZIP == "GZIP"

ZLIB == "ZLIB"

TileFormats == {UNKNOWN, PBF, PNG, JPG, WEBP, GZIP, ZLIB}

\* tileFomatPatterns: the signature bytes of each detectable format
tileFomatPatterns ==
    [fmt \in {GZIP, ZLIB, PNG, JPG, WEBP} |->
        CASE fmt = GZIP -> <<31, 139>>
          [] fmt = ZLIB -> <<120, 156>>
          [] fmt = PNG  -> <<137, 80, 78, 71, 13, 10, 26, 10>>
          [] fmt = JPG  -> <<255, 216, 255>>
          [] fmt = WEBP -> <<82, 73, 70, 70, 192, 0, 0, 0, 87, 69, 66, 80, 86, 80>>]

\* bytes.HasPrefix
HasPrefix(data, pattern) ==
    /\ Len(data) >= Len(pattern)
    /\ \A k \in 1..Len(pattern) : data[k] = pattern[k]

\* What the bytes after the signature of a blob hold: a JSON object (its
\* "data" member, a set of <<key, value>> pairs, and the rest of its members),
\* or something that is no JSON object.
Doc(kind, rest, data) == [kind |-> kind, rest |-> rest, data |-> data]

NoDoc == Doc("none", "", {})

\* A byte slice: its leading bytes, and what the bytes after them hold.
Blob(head, body) == [head |-> head, body |-> body]

EmptyBlob == Blob(<<>>, NoDoc)

\* detectTileFormat: the formats whose pattern the data starts with; the
\* map is ranged over in an unspecified order and the first match returned
Matching(data) == {fmt \in DOMAIN tileFomatPatterns : HasPrefix(data.head, tileFomatPatterns[fmt])}

detectTileFormat(data) ==
    IF Matching(data) # {}
    THEN [format |-> CHOOSE fmt \in Matching(data) : TRUE, err |-> NoErr]
    ELSE [format |-> UNKNOWN, err |-> ErrUnknownTileFormatPattern]

-----------------------------------------------------------------------------
(* Tileset and NewTileset *)

fileExtension == <<".", "m", "b", "t", "i", "l", "e", "s">>

\* strings.HasSuffix
HasSuffix(s, suffix) ==
    /\ Len(s) >= Len(suffix)
    /\ SubSeq(s, Len(s) - Len(suffix) + 1, Len(s)) = suffix

\* strings.TrimSuffix
TrimSuffix(s, suffix) ==
    IF HasSuffix(s, suffix) THEN SubSeq(s, 1, Len(s) - Len(suffix)) ELSE s

\* filepath.Ext: the suffix of the name from its last dot on
Ext(name) ==
    LET l == LastIndex(name, ".")
    IN  IF l > 0 THEN SubSeq(name, l, Len(name)) ELSE <<>>

\* the outcome of a one-row query: a row, no row, or a failure of the query
Row(data) == [st |-> "row", data |-> data]

NoRows == [st |-> "norows", data |-> EmptyBlob]

QueryFails == [st |-> "error", data |-> EmptyBlob]

\* time.Time.Round(time.Second) of an instant given in half seconds, in seconds
RoundSecond(t) == (t + 1) \div 2

\* a *Tileset: the nil pointer, or a pointer to a Tileset
NilTileset ==
    [nil |-> TRUE, Filename |-> <<>>, Format |-> UNKNOWN, Timestamp |-> 0,
     UTFGrid |-> FALSE, UTFGridCompression |-> UNKNOWN, database |-> <<>>]

\* ts := &Tileset{...}; database names the file the handle is open on
NewTilesetValue(a, format) ==
    [nil |-> FALSE, Filename |-> a.name, Format |-> format,
     Timestamp |-> RoundSecond(a.modTime), UTFGrid |-> FALSE,
     UTFGridCompression |-> UNKNOWN, database |-> a.name]

\* ts.UTFGrid = true; ts.UTFGridCompression, err = detectTileFormat(gridData)
NewTilesetCodec(ts, d) ==
    IF d.err # NoErr
    THEN [ts |-> NilTileset, err |-> "could not determine UTF Grid compression type"]
    ELSE [ts |-> [ts EXCEPT !.UTFGrid = TRUE, !.UTFGridCompression = d.format], err |-> NoErr]

\* the grid probe of NewTileset when the five relations exist
NewTilesetGrid(a, ts) ==
    IF a.gridSample.st = "error"
    THEN [ts |-> NilTileset, err |-> "could not read sample grid to determine type"]
    ELSE IF a.gridSample.st = "norows"
    THEN [ts |-> ts, err |-> NoErr]
    ELSE NewTilesetCodec(ts, detectTileFormat(a.gridSample.data))

\* NewTileset on the archive a: the pair (ts, err), from the detected format
\* of the sample tile on. GZIP stands for PBF; any other format is rejected.
NewTilesetFormat(a, d) ==
    IF d.err # NoErr
    THEN [ts |-> NilTileset, err |-> d.err]
    ELSE IF d.format \notin {GZIP, PBF}
    THEN [ts |-> NilTileset, err |-> "The tile format is currently not supported"]
    ELSE IF a.gridRelations = 5
    THEN NewTilesetGrid(a, NewTilesetValue(a, PBF))
    ELSE [ts |-> NewTilesetValue(a, PBF), err |-> NoErr]

NewTileset(a) ==
    IF ~a.readable
    THEN [ts |-> NilTileset, err |-> ErrStorage]
    ELSE IF a.tableCount < 2
    THEN [ts |-> NilTileset, err |-> "missing required table: 'tiles' OR 'metadata'"]
    ELSE IF a.tileSample.st # "row"
    THEN [ts |-> NilTileset, err |-> IF a.tileSample.st = "norows" THEN ErrNoRows ELSE ErrStorage]
    ELSE NewTilesetFormat(a, detectTileFormat(a.tileSample.data))

-----------------------------------------------------------------------------
(* Archives on disk *)

GzipHead == <<31, 139, 8, 0>>

ZlibHead == <<120, 156, 1>>

PngHead == <<137, 80, 78, 71, 13, 10, 26, 10, 0>>

TileBody(id) == Blob(GzipHead, Doc("pbf", id, {}))

\* an entry of the directory: a file with the relations it holds
Archive(name, isDir, readable, tableCount, tileSample, gridRelations, gridSample) ==
    [name |-> name, isDir |-> isDir, readable |-> readable, tableCount |-> tableCount,
     tileSample |-> tileSample, gridRelations |-> gridRelations, gridSample |-> gridSample,
     modTime |-> 3, tiles |-> {}, grids |-> {}, gridData |-> <<>>, metadata |-> <<>>]

\* the file names of a directory, by position
BaseNames == <<"a", "b", "c", "d", "e">>

Mbtiles(k) == <<BaseNames[k]>> \o fileExtension

\* a vector-tile archive without interactivity relations
GoodArchive(k) == Archive(Mbtiles(k), FALSE, TRUE, 2, Row(TileBody("t")), 0, NoRows)

\* a vector-tile archive with zlib-compressed grids
GridArchive(k) ==
    Archive(Mbtiles(k), FALSE, TRUE, 2, Row(TileBody("t")), 5,
            Row(Blob(ZlibHead, Doc("json", "g", {}))))

\* an archive without the metadata relation
BadArchive(k) == Archive(Mbtiles(k), FALSE, TRUE, 1, NoRows, 0, NoRows)

\* a file that is no archive
TextFile(k) ==
    Archive(<<BaseNames[k], ".", "t", "x", "t">>, FALSE, FALSE, 0, QueryFails, 0, QueryFails)

LoadEntries(k) == {GoodArchive(k), GridArchive(k), BadArchive(k), TextFile(k)}

\* the most files a directory holds
MaxFiles == 3

RECURSIVE Listings(_)
Listings(n) ==
    IF n = 0 THEN {<<>>}
    ELSE {Append(l, e) : l \in Listings(n - 1), e \in LoadEntries(n)}

Directories == UNION {Listings(n) : n \in 0..MaxFiles}

-----------------------------------------------------------------------------
(* LoadTilesets *)

\* if !f.IsDir() && filepath.Ext(f.Name()) == fileExtension
Candidate(a) == ~a.isDir /\ Ext(a.name) = fileExtension

\* ch := make(chan *Tileset, 1)
ChanCap == 1

\* the registry map with key k set to ts
MapPut(m, k, ts) == {p \in m : p[1] # k} \cup {<<k, ts>>}

MapHas(m, k) == \E p \in m : p[1] = k

MapGet(m, k) == (CHOOSE p \in m : p[1] = k)[2]

Running == mpc \notin {"idle", "done", "panic"}

InitLoad ==
    /\ files \in Directories
    /\ idx = 1
    /\ f = 0
    /\ mpc = "loop"
    /\ tasks = <<>>
    /\ ch = <<>>
    /\ closed = FALSE
    /\ wg = 0
    /\ cpc = "none"
    /\ tilesets = {}
    /\ calls = <<>>
    /\ req = [op |-> "LoadTilesets"]
    /\ res = Pending

\* one iteration of "for _, f := range files": f is assigned, and a candidate
\* file gets wg.Add(1) and a new goroutine
LoopStep ==
    /\ mpc = "loop"
    /\ idx <= Len(files)
    /\ f' = idx
    /\ idx' = idx + 1
    /\ IF Candidate(files[idx])
       THEN /\ wg' = wg + 1
            /\ tasks' = Append(tasks, [pc |-> "start", ts |-> NilTileset])
       ELSE UNCHANGED <<wg, tasks>>
    /\ UNCHANGED <<files, mpc, ch, closed, cpc, tilesets, calls, req, res>>

\* the loop is over: the closing goroutine is started and the range over ch begins
LoopEnd ==
    /\ mpc = "loop"
    /\ idx > Len(files)
    /\ mpc' = "range"
    /\ cpc' = "wait"
    /\ UNCHANGED <<files, idx, f, tasks, ch, closed, wg, tilesets, calls, req, res>>

\* the file a load goroutine passes to NewTileset: the one the shared loop
\* variable f names at the moment the goroutine evaluates f.Name()
TaskFile(t) == f

\* ts, err := NewTileset(fmt.Sprintf("%s/%s", path, f.Name()))
TaskLoad(t) ==
    /\ Running
    /\ tasks[t].pc = "start"
    /\ tasks' = [tasks EXCEPT ![t] = [pc |-> "send", ts |-> NewTileset(files[TaskFile(t)]).ts]]
    /\ calls' = Append(calls, TaskFile(t))
    /\ UNCHANGED <<files, idx, f, mpc, ch, closed, wg, cpc, tilesets, req, res>>

\* ch <- ts
TaskSend(t) ==
    /\ Running
    /\ tasks[t].pc = "send"
    /\ IF closed
       THEN /\ mpc' = "panic"
            /\ res' = [pc |-> "panic", err |-> "send on closed channel"]
            /\ UNCHANGED <<tasks, ch>>
       ELSE /\ Len(ch) < ChanCap
            /\ ch' = Append(ch, tasks[t].ts)
            /\ tasks' = [tasks EXCEPT ![t].pc = "done"]
            /\ UNCHANGED <<mpc, res>>
    /\ UNCHANGED <<files, idx, f, closed, wg, cpc, tilesets, calls, req>>

\* wg.Done()
TaskDone(t) ==
    /\ Running
    /\ tasks[t].pc = "done"
    /\ wg' = wg - 1
    /\ tasks' = [tasks EXCEPT ![t].pc = "exit"]
    /\ UNCHANGED <<files, idx, f, mpc, ch, closed, cpc, tilesets, calls, req, res>>

\* wg.Wait() returns
CloserWait ==
    /\ Running
    /\ cpc = "wait"
    /\ wg = 0
    /\ cpc' = "close"
    /\ UNCHANGED <<files, idx, f, mpc, tasks, ch, closed, wg, tilesets, calls, req, res>>

\* close(ch)
CloserClose ==
    /\ Running
    /\ cpc = "close"
    /\ closed' = TRUE
    /\ cpc' = "exit"
    /\ UNCHANGED <<files, idx, f, mpc, tasks, ch, wg, tilesets, calls, req, res>>

\* the registry after the body of the range loop has run for a non-nil ts
Register(m, ts) == MapPut(m, TrimSuffix(ts.Filename, fileExtension), ts)

\* one round of "for ts := range ch": a value is received and
\* tilesets[strings.TrimSuffix(ts.Filename, fileExtension)] = ts runs, which
\* dereferences ts
Receive ==
    /\ mpc = "range"
    /\ Len(ch) > 0
    /\ ch' = Tail(ch)
    /\ IF Head(ch).nil
       THEN /\ mpc' = "panic"
            /\ res' = [pc |-> "panic", err |-> "nil pointer dereference"]
            /\ UNCHANGED tilesets
       ELSE /\ tilesets' = Register(tilesets, Head(ch))
            /\ UNCHANGED <<mpc, res>>
    /\ UNCHANGED <<files, idx, f, tasks, closed, wg, cpc, calls, req>>

\* a range loop that ends as soon as it finds the channel empty
RangeEndOnEmpty ==
    /\ mpc = "range"
    /\ Len(ch) = 0
    /\ mpc' = "done"
    /\ res' = [pc |-> "ret", err |-> NoErr]
    /\ UNCHANGED <<files, idx, f, tasks, ch, closed, wg, cpc, tilesets, calls, req>>

\* the range loop ends on the closed, drained channel and LoadTilesets returns nil
RangeEnd ==
    /\ mpc = "range"
    /\ Len(ch) = 0
    /\ closed
    /\ mpc' = "done"
    /\ res' = [pc |-> "ret", err |-> NoErr]
    /\ UNCHANGED <<files, idx, f, tasks, ch, closed, wg, cpc, tilesets, calls, req>>

NextLoad ==
    \/ LoopStep
    \/ LoopEnd
    \/ \E t \in 1..Len(tasks) : TaskLoad(t)
    \/ \E t \in 1..Len(tasks) : TaskSend(t)
    \/ \E t \in 1..Len(tasks) : TaskDone(t)
    \/ CloserWait
    \/ CloserClose
    \/ Receive
    \/ RangeEnd

SpecLoad == InitLoad /\ [][NextLoad]_vars

\* the registry key of the archive at position k of the directory
KeyOf(k) == TrimSuffix(files[k].name, fileExtension)

Loads(k) == NewTileset(files[k]).err = NoErr

\* how often the file at position k has been passed to NewTileset
TimesLoaded(k) == Cardinality({c \in 1..Len(calls) : calls[c] = k})

\* a call of NewTileset has failed
SomeLoadFailed ==
    \E t \in 1..Len(tasks) : tasks[t].pc # "start" /\ tasks[t].ts.nil

\* C1: a failing NewTileset is not fatal to LoadTilesets: the load does not
\* crash, and when it has returned the registry holds exactly the candidate
\* archives that load, the failed one excluded.
C1_LoadFailureNonFatal ==
    SomeLoadFailed =>
        /\ mpc # "panic"
        /\ mpc = "done" =>
              \A k \in 1..Len(files) :
                  MapHas(tilesets, KeyOf(k)) <=> (Candidate(files[k]) /\ Loads(k))

\* C2: every candidate file is passed to NewTileset exactly once, whatever the
\* interleaving of the loop and the load goroutines, and after the load the
\* registry holds an entry under the file name minus extension for every
\* archive that loads.
C2_EachFileLoadedOnce ==
    /\ \A k \in 1..Len(files) : TimesLoaded(k) <= (IF Candidate(files[k]) THEN 1 ELSE 0)
    /\ mpc = "done" =>
          \A k \in 1..Len(files) : Candidate(files[k]) =>
              /\ TimesLoaded(k) = 1
              /\ Loads(k) => /\ MapHas(tilesets, KeyOf(k))
                             /\ MapGet(tilesets, KeyOf(k)).Filename = files[k].name

\* every load goroutine has delivered its result
AllDelivered == idx > Len(files) /\ \A t \in 1..Len(tasks) : tasks[t].pc \in {"done", "exit"}

\* C13: during LoadTilesets the aggregator writes the first entry into the
\* registry only after every load task has finished: no registry write is
\* interleaved with a load task that is still running or still waiting to
\* deliver its result.
C13_RegistryBuiltAfterLoads == tilesets # {} => AllDelivered

\* C13, amended: the registry is written by the aggregator alone, one received
\* result per write, while other load tasks may still be running or waiting
\* to deliver; LoadTilesets returns only after every load task has delivered
\* its result and finished, with the channel closed and drained.
C13_AggregatorAloneWrites ==
    /\ [][tilesets' # tilesets =>
              /\ mpc = "range" /\ Len(ch) > 0 /\ ~Head(ch).nil
              /\ tilesets' = Register(tilesets, Head(ch))
              /\ ch' = Tail(ch)]_vars
    /\ [](mpc = "done" =>
              /\ closed /\ ch = <<>> /\ wg = 0
              /\ idx > Len(files)
              /\ \A t \in 1..Len(tasks) : tasks[t].pc = "exit")

\* the registry holds an entry while a load task has not called NewTileset
\* yet and another waits to deliver
C13_Witness ==
    /\ tilesets # {}
    /\ \E t \in 1..Len(tasks) : tasks[t].pc = "start"
    /\ \E t \in 1..Len(tasks) : tasks[t].pc = "send"

\* the Go scheduler runs every goroutine that can take a step, and a channel
\* serves its blocked senders in arrival order, so no sender waits forever
\* on a channel that is emptied again and again
LoadFairness ==
    /\ WF_vars(LoopStep \/ LoopEnd \/ Receive \/ RangeEnd)
    /\ WF_vars(CloserWait \/ CloserClose)
    /\ \A t \in 1..MaxFiles :
          /\ WF_vars(t <= Len(tasks) /\ (TaskLoad(t) \/ TaskDone(t)))
          /\ SF_vars(t <= Len(tasks) /\ TaskSend(t))

SpecLoadFair == SpecLoad /\ LoadFairness

\* C15: for any number N >= 0 of candidate archives whose loads all return,
\* LoadTilesets terminates without deadlock: every load goroutine eventually
\* completes its send, the channel is closed exactly once and only after all
\* N sends, no send happens on a closed channel, and the aggregator has
\* received exactly N results when LoadTilesets returns.
C15_LoadTerminates ==
    /\ [](closed => AllDelivered)
    /\ [][closed' # closed => ~closed /\ cpc = "close" /\ cpc' = "exit"]_vars
    /\ [](res.pc = "panic" => res.err # "send on closed channel")
    /\ [](mpc = "done" => ch = <<>> /\ \A t \in 1..Len(tasks) : tasks[t].pc = "exit")
    /\ <>(AllDelivered /\ closed)
    /\ <>(mpc = "done" /\ res = [pc |-> "ret", err |-> NoErr])

-----------------------------------------------------------------------------
(* Metadata *)

SpaceChars == {" "}

\* strings.TrimSpace
RECURSIVE TrimLeft(_)
TrimLeft(s) == IF Len(s) > 0 /\ Head(s) \in SpaceChars THEN TrimLeft(Tail(s)) ELSE s

RECURSIVE TrimRight(_)
TrimRight(s) ==
    IF Len(s) > 0 /\ s[Len(s)] \in SpaceChars THEN TrimRight(SubSeq(s, 1, Len(s) - 1)) ELSE s

TrimSpace(s) == TrimRight(TrimLeft(s))

\* strings.Split(s, ","): the pieces between the commas, at least one
RECURSIVE Split(_)
Split(s) ==
    IF \E k \in 1..Len(s) : s[k] = ","
    THEN LET k == CHOOSE i \in 1..Len(s) : s[i] = "," /\ \A j \in 1..(i-1) : s[j] # ","
         IN  <<SubSeq(s, 1, k - 1)>> \o Split(SubSeq(s, k + 1, Len(s)))
    ELSE <<s>>

\* a signed decimal: sign, integer digits (a uint64) and fraction digits
Number(neg, int, frac) == [neg |-> neg, int |-> int, frac |-> frac]

Zero == Number(FALSE, U64Zero, <<>>)

Unsigned(s) == IF Len(s) > 0 /\ Head(s) \in {"-", "+"} THEN Tail(s) ELSE s

IsNeg(s) == Len(s) > 0 /\ Head(s) = "-"

AtoiValue(s, p) ==
    IF p.err # NoErr \/ p.val[Limbs] >= LimbBase \div 2
    THEN [val |-> Zero, err |-> "strconv.Atoi: invalid"]
    ELSE [val |-> Number(IsNeg(s) /\ p.val # U64Zero, p.val, <<>>), err |-> NoErr]

\* strconv.Atoi: an optional sign and decimal digits; 0 and an error otherwise
Atoi(s) == AtoiValue(s, ParseUint(Unsigned(s), 64))

FloatValue(s, p, fp) ==
    IF p.err # NoErr \/ \E k \in 1..Len(fp) : fp[k] \notin DigitChars
    THEN [val |-> Zero, err |-> "strconv.ParseFloat: invalid syntax"]
    ELSE [val |-> Number(IsNeg(s), p.val, fp), err |-> NoErr]

\* the digits before and after the decimal point of u
IntPart(u, dot) == IF dot > 0 THEN SubSeq(u, 1, dot - 1) ELSE u

FracPart(u, dot) == IF dot > 0 THEN SubSeq(u, dot + 1, Len(u)) ELSE <<>>

FloatParts(s, ip, fp) ==
    FloatValue(s, ParseUint(IF ip = <<>> /\ fp # <<>> THEN <<"0">> ELSE ip, 64), fp)

FloatAt(s, u, dot) == FloatParts(s, IntPart(u, dot), FracPart(u, dot))

\* strconv.ParseFloat(s, 64) on plain decimals: an optional sign, digits, and
\* an optional fraction; 0 and an error otherwise
ParseFloat(s) == FloatAt(s, Unsigned(s), LastIndex(Unsigned(s), "."))

\* stringToBounds / stringToCenter: the loop over the pieces of str, filling an
\* array of n floats. Every piece assigns err anew; a piece beyond the array
\* is an index out of range.
RECURSIVE FloatLoop(_, _, _, _, _)
FloatStep(parts, i, n, arr, p) == FloatLoop(parts, i + 1, n, [arr EXCEPT ![i] = p.val], p.err)

FloatLoop(parts, i, n, arr, err) ==
    IF i > Len(parts) THEN [val |-> arr, err |-> err]
    ELSE IF i > n THEN [val |-> arr, err |-> "panic: index out of range"]
    ELSE FloatStep(parts, i, n, arr, ParseFloat(TrimSpace(parts[i])))

stringToBounds(str) == FloatLoop(Split(str), 1, 4, <<Zero, Zero, Zero, Zero>>, NoErr)

stringToCenter(str) == FloatLoop(Split(str), 1, 3, <<Zero, Zero, Zero>>, NoErr)

BaseLayer == "baselayer"

Overlay == "overlay"

\* stringToTileFormat over formatStrings
stringToTileFormat(s) ==
    CASE s = <<"p", "b", "f">> -> PBF
      [] s = <<"p", "n", "g">> -> PNG
      [] s = <<"j", "p", "g">> -> JPG
      [] s = <<"w", "e", "b", "p">> -> WEBP
      [] s = <<"g", "z", "i", "b">> -> GZIP
      [] s = <<"z", "l", "i", "b">> -> ZLIB
      [] OTHER -> UNKNOWN

\* stringToLayerType over layerTypeStrings
stringToLayerType(s) ==
    IF s = <<"o", "v", "e", "r", "l", "a", "y">> THEN Overlay ELSE BaseLayer

\* json.Unmarshal([]byte(value), &md.LayerData): the texts that decode into a
\* *LayerData are the JSON objects and null
JsonObjects == {<<"{", "}">>, <<"n", "u", "l", "l">>}

UnmarshalLayerData(value) ==
    IF value \in JsonObjects THEN [val |-> value, err |-> NoErr]
    ELSE [val |-> <<>>, err |-> "json: cannot unmarshal"]

\* md := &Metadata{}
EmptyMetadata ==
    [nil |-> FALSE, Name |-> <<>>, Format |-> UNKNOWN, Bounds |-> <<Zero, Zero, Zero, Zero>>,
     Center |-> <<Zero, Zero, Zero>>, MinZoom |-> Zero, MaxZoom |-> Zero,
     Description |-> <<>>, Version |-> <<>>, Type |-> BaseLayer, Attribution |-> <<>>,
     LayerData |-> <<>>]

NilMetadata == [EmptyMetadata EXCEPT !.nil = TRUE]

\* the assignments of the switch of GetMetadata that also assign err
SetMinZoom(md, r) == [md |-> [md EXCEPT !.MinZoom = r.val], err |-> r.err]

SetMaxZoom(md, r) == [md |-> [md EXCEPT !.MaxZoom = r.val], err |-> r.err]

SetCenter(md, r) == [md |-> [md EXCEPT !.Center = r.val], err |-> r.err]

SetBounds(md, r) == [md |-> [md EXCEPT !.Bounds = r.val], err |-> r.err]

SetLayerData(md, r) == [md |-> [md EXCEPT !.LayerData = r.val], err |-> r.err]

\* the switch of GetMetadata on one row: the metadata after it and the err it leaves
MetaRow(md, key, value) ==
    CASE key = "name"        -> [md |-> [md EXCEPT !.Name = value], err |-> NoErr]
      [] key = "description" -> [md |-> [md EXCEPT !.Description = value], err |-> NoErr]
      [] key = "attribution" -> [md |-> [md EXCEPT !.Attribution = value], err |-> NoErr]
      [] key = "version"     -> [md |-> [md EXCEPT !.Version = value], err |-> NoErr]
      [] key = "format"      -> [md |-> [md EXCEPT !.Format = stringToTileFormat(value)], err |-> NoErr]
      [] key = "minzoom"     -> SetMinZoom(md, Atoi(value))
      [] key = "maxzoom"     -> SetMaxZoom(md, Atoi(value))
      [] key = "center"      -> SetCenter(md, stringToCenter(value))
      [] key = "bounds"      -> SetBounds(md, stringToBounds(value))
      [] key = "type"        -> [md |-> [md EXCEPT !.Type = stringToLayerType(value)], err |-> NoErr]
      [] key = "json"        -> SetLayerData(md, UnmarshalLayerData(value))
      [] OTHER               -> [md |-> md, err |-> NoErr]

\* the rows.Next() loop of GetMetadata over the rows "WHERE value is not ''"
RECURSIVE MetaLoop(_, _, _)
MetaStep(rows, k, r) ==
    IF r.err # NoErr THEN [md |-> NilMetadata, err |-> r.err]
    ELSE MetaLoop(rows, k + 1, r.md)

MetaLoop(rows, k, md) ==
    IF k > Len(rows) THEN [md |-> md, err |-> NoErr]
    ELSE IF rows[k][2] = <<>> THEN MetaLoop(rows, k + 1, md)
    ELSE MetaStep(rows, k, MetaRow(md, rows[k][1], rows[k][2]))

Min(Z) == CHOOSE z \in Z : \A y \in Z : z <= y

Max(Z) == CHOOSE z \in Z : \A y \in Z : z >= y

\* the zoom levels present in the tiles relation of archive a
ZoomLevels(a) == {t.z : t \in a.tiles}

\* if md.MaxZoom == 0: SELECT min(zoom_level), max(zoom_level) FROM tiles,
\* scanned into strings and converted with strconv.Atoi
ZoomFallback(a, md) ==
    IF ZoomLevels(a) = {}
    THEN [md |-> NilMetadata, err |-> "sql: Scan error: converting NULL to string"]
    ELSE [md |-> [md EXCEPT !.MinZoom = Atoi(Dec(Min(ZoomLevels(a)))).val,
                            !.MaxZoom = Atoi(Dec(Max(ZoomLevels(a)))).val],
          err |-> NoErr]

GetMetadataZoom(a, l) ==
    IF l.err # NoErr THEN l
    ELSE IF l.md.MaxZoom = Zero THEN ZoomFallback(a, l.md)
    ELSE l

\* Tileset.GetMetadata on the archive a the handle is open on; fails says
\* whether the storage layer fails the query
GetMetadata(a, fails) ==
    IF fails THEN [md |-> NilMetadata, err |-> ErrStorage]
    ELSE GetMetadataZoom(a, MetaLoop(a.metadata, 1, EmptyMetadata))

-----------------------------------------------------------------------------
(* SpecMeta: GetMetadata applied to bounded metadata relations *)

\* the longest enumerated metadata value
MaxValueLen == 7

MetaChars == {"1", "a", ","}

RECURSIVE StringsUpTo(_)
StringsUpTo(n) ==
    IF n = 0 THEN {<<>>}
    ELSE StringsUpTo(n - 1)
            \cup {Append(s, c) : s \in {t \in StringsUpTo(n - 1) : Len(t) = n - 1}, c \in MetaChars}

PickedValues ==
    { <<"1", ".", "5", ",", " ", "-", "1", ",", "1", " ", ",", "1">>,
      <<"1", ",", "1", ".", "1", ".", "1", ",", "1", ",", "1">>,
      <<" ", "1", ",", "1", ",", "1">>,
      <<"1", ",", "1", ",", "1", ",", "1", ",", "1">> }

ZoomValues == {<<"0">>, <<"1">>, <<"4">>, <<"-", "1">>, <<"a">>, <<"1", "a">>}

NameRow == <<"name", <<"m", "a", "p">>>>

MetaTables ==
    {<<<<k, v>>>> : k \in {"bounds", "center"}, v \in StringsUpTo(MaxValueLen) \cup PickedValues}
    \cup {<<NameRow, <<k, v>>>> : k \in {"minzoom", "maxzoom"}, v \in ZoomValues}
    \cup {<<NameRow, <<"json", v>>>> : v \in JsonObjects \cup {<<"{">>, <<"1">>}}
    \cup {<<NameRow, <<"format", <<"p", "b", "f">>>>, <<"type", <<"o", "v", "e", "r", "l", "a", "y">>>>,
            <<"description", <<>>>>, <<"maxzoom", <<"4">>>>, <<"bounds", v>>>> :
                v \in StringsUpTo(2) \cup PickedValues}

Tile(z, x, y, data) == [z |-> z, x |-> x, y |-> y, data |-> data]

MetaArchives ==
    {[GoodArchive(1) EXCEPT !.metadata = rows, !.tiles = tiles] :
        rows \in MetaTables,
        tiles \in {{}, {Tile(1, 0, 0, TileBody("t")), Tile(3, 1, 2, TileBody("u"))}}}

InitMeta ==
    /\ files \in {<<a>> : a \in MetaArchives}
    /\ idx = 0
    /\ f = 0
    /\ mpc = "idle"
    /\ tasks = <<>>
    /\ ch = <<>>
    /\ closed = FALSE
    /\ wg = 0
    /\ cpc = "none"
    /\ tilesets = Register({}, NewTileset(files[1]).ts)
    /\ calls = <<>>
    /\ req = [op |-> "GetMetadata"]
    /\ res = Pending

CallGetMetadata ==
    /\ req.op = "GetMetadata"
    /\ res = Pending
    /\ \E fails \in BOOLEAN :
          res' = [pc |-> "ret", fails |-> fails] @@ GetMetadata(files[1], fails)
    /\ UNCHANGED <<req, loadVars>>

NextMeta == CallGetMetadata

SpecMeta == InitMeta /\ [][NextMeta]_vars

\* a row whose value does not parse as its recognised key requires
BadFloats(v) == \E k \in 1..Len(Split(v)) : ParseFloat(TrimSpace(Split(v)[k])).err # NoErr

BadRow(r) ==
    /\ r[2] # <<>>
    /\ \/ r[1] \in {"bounds", "center"} /\ BadFloats(r[2])
       \/ r[1] \in {"minzoom", "maxzoom"} /\ Atoi(r[2]).err # NoErr
       \/ r[1] = "json" /\ UnmarshalLayerData(r[2]).err # NoErr

\* C9: GetMetadata fails as a whole and returns no Metadata whenever a
\* recognised field fails to parse: a bounds or center value with any element
\* that is no float, a minzoom or maxzoom that is no integer, a malformed json.
C9_AnyBadFieldFails ==
    (Returned("GetMetadata") /\ \E k \in 1..Len(files[1].metadata) : BadRow(files[1].metadata[k]))
        => res.err # NoErr /\ res.md.nil

-----------------------------------------------------------------------------
(* GetTileset, Tileset.GetTile, Tileset.GetGrid *)

\* GetTileset: the registered Tileset of id, or ErrTilesetNotFound
GetTileset(id) ==
    IF MapHas(tilesets, id) THEN [ts |-> MapGet(tilesets, id), err |-> NoErr]
    ELSE [ts |-> NilTileset, err |-> ErrTilesetNotFound]

\* the archive the database handle of ts is open on
Database(ts) == files[CHOOSE k \in 1..Len(files) : files[k].name = ts.database]

\* WHERE zoom_level = ? AND tile_column = ? AND tile_row = ?, bound to tc.Z, tc.X, tc.Y
AtCoord(r, tc) == r.z = tc.Z /\ U64(r.x) = tc.X /\ U64(r.y) = tc.Y

\* QueryRow(...).Scan(&data) on a relation: the row at tc, no row, or a failed query
QueryRowAt(rel, tc, fails) ==
    IF fails THEN QueryFails
    ELSE IF \E r \in rel : AtCoord(r, tc) THEN Row((CHOOSE r \in rel : AtCoord(r, tc)).data)
    ELSE NoRows

\* a scan that takes an empty result set for an empty payload
GetTileScanNoRowsAsEmpty(q) ==
    IF q.st = "error" THEN [data |-> EmptyBlob, err |-> ErrStorage]
    ELSE [data |-> q.data, err |-> NoErr]

\* the result of GetTile from the outcome of its query
GetTileScan(q) ==
    IF q.st = "norows" THEN [data |-> EmptyBlob, err |-> ErrTileNotFound]
    ELSE IF q.st = "error" THEN [data |-> EmptyBlob, err |-> ErrStorage]
    ELSE [data |-> q.data, err |-> NoErr]

\* Tileset.GetTile: the pair (data, err); fails names the query the storage
\* layer fails (0 for none)
GetTile(ts, tc, fails) == GetTileScan(QueryRowAt(Database(ts).tiles, tc, fails = 1))

\* json.Unmarshal(value, &valuejson) with its error dropped: the fragments
\* that are JSON objects decode to themselves, any other leaves the empty map
JsonFragments == {"{\"n\":1}", "{\"n\":2}"}

ParsedFragment(value) == IF value \in JsonFragments THEN value ELSE "{}"

\* the rows.Next() loop of GetGrid: keydata[key] = valuejson for each row at tc
RECURSIVE KeyData(_, _, _, _)
KeyData(rows, k, tc, keydata) ==
    IF k > Len(rows) THEN keydata
    ELSE IF AtCoord(rows[k], tc)
    THEN KeyData(rows, k + 1, tc, MapPut(keydata, rows[k].key, ParsedFragment(rows[k].json)))
    ELSE KeyData(rows, k + 1, tc, keydata)

\* zlib.NewReader / gzip.NewReader followed by reading to the end: the
\* document of a stream that carries the codec's header
Inflate(codec, data) ==
    IF HasPrefix(data.head, tileFomatPatterns[codec])
    THEN [doc |-> data.body, err |-> NoErr]
    ELSE [doc |-> NoDoc, err |-> "invalid header"]

\* zlib.NewWriter / gzip.NewWriter, written and closed
Deflate(codec, doc) == Blob(IF codec = ZLIB THEN ZlibHead ELSE GzipHead, doc)

\* the part of GetGrid after the key data is known to be non-empty: data is
\* inflated and decoded, keydata spliced in and the result deflated into buf;
\* buf.Write(data) appends the stored payload to buf, and data is returned
GridResult(data, buf, err) == [data |-> data, buf |-> buf, err |-> err]

\* json.NewDecoder(zreader).Decode(&utfjson) and what follows it
MergeDecoded(ts, data, keydata, z) ==
    IF z.err # NoErr THEN GridResult(data, <<>>, z.err)
    ELSE IF z.doc.kind # "json" THEN GridResult(data, <<>>, "json: invalid character")
    ELSE GridResult(data,
                    <<Deflate(ts.UTFGridCompression, [z.doc EXCEPT !.data = keydata]), data>>,
                    NoErr)

MergeGrid(ts, data, keydata) ==
    IF ts.UTFGridCompression \notin {ZLIB, GZIP}
    THEN GridResult(data, <<>>, "unknown grid compression")
    ELSE MergeDecoded(ts, data, keydata, Inflate(ts.UTFGridCompression, data))

\* GetGrid once the grid payload has been read: the key data query and the merge
GetGridKeys(ts, data, keydata, fails) ==
    IF fails = 2 THEN GridResult(data, <<>>, "cannot fetch grid data")
    ELSE IF keydata = {} THEN GridResult(data, <<>>, NoErr)
    ELSE MergeGrid(ts, data, keydata)

\* GetGrid from the outcome of the grid query on
GetGridScan(ts, tc, q, fails) ==
    IF q.st = "error" THEN GridResult(EmptyBlob, <<>>, ErrStorage) @@ [queries |-> 1]
    ELSE IF q.st = "norows" THEN GridResult(EmptyBlob, <<>>, ErrNoRows) @@ [queries |-> 1]
    ELSE GetGridKeys(ts, q.data, KeyData(Database(ts).gridData, 1, tc, {}), fails)
            @@ [queries |-> 2]

\* a GetGrid that reads the grid before it looks at ts.UTFGrid
GetGridQueryFirst(ts, tc, fails) ==
    GetGridScan(ts, tc, QueryRowAt(Database(ts).grids, tc, fails = 1), fails)

\* Tileset.GetGrid: (data, err), with the buffer it filled; queries counts
\* the storage queries issued
GetGrid(ts, tc, fails) ==
    IF ~ts.UTFGrid THEN GridResult(EmptyBlob, <<>>, ErrNoUTFGrid) @@ [queries |-> 0]
    ELSE GetGridScan(ts, tc, QueryRowAt(Database(ts).grids, tc, fails = 1), fails)

-----------------------------------------------------------------------------
(* package model: GetTile, GetGrid, GetTileJSON *)

\* a time.Time: the zero value, or an instant in seconds
Time(sec) == [zero |-> FALSE, sec |-> sec]

ZeroTime == [zero |-> TRUE, sec |-> 0]

\* time.Time.After
After(t, u) == IF t.zero THEN FALSE ELSE (u.zero \/ t.sec > u.sec)

\* a [32]byte hash: the zero array, or the blake3 sum of data
Sum(data) == [zero |-> FALSE, of |-> data]

ZeroSum == [zero |-> TRUE, of |-> EmptyBlob]

\* a *Tile: nil, or a pointer to a Tile
NilTile ==
    [nil |-> TRUE, Data |-> EmptyBlob, Format |-> UNKNOWN, Modified |-> ZeroTime, Hash |-> ZeroSum]

\* Tile{Data, Format, Modified, Hash} of model.GetTile
TileOf(ts, t) ==
    IF t.err # NoErr THEN [tile |-> NilTile, err |-> t.err]
    ELSE [tile |-> [nil |-> FALSE, Data |-> t.data, Format |-> ts.Format,
                    Modified |-> Time(ts.Timestamp), Hash |-> Sum(t.data)],
          err |-> NoErr]

ModelGetTileAt(ts, p, fails) ==
    IF p.err # NoErr THEN [tile |-> NilTile, err |-> p.err]
    ELSE TileOf(ts, GetTile(ts, p.tc, fails))

ModelGetTileIn(g, z, x, y, fails) ==
    IF g.err # NoErr THEN [tile |-> NilTile, err |-> g.err]
    ELSE ModelGetTileAt(g.ts, ParseTileCoord(z, x, y), fails)

\* model.GetTile: (tile, err)
ModelGetTile(id, z, x, y, fails) == ModelGetTileIn(GetTileset(id), z, x, y, fails)

\* Tile{Data, Format} of model.GetGrid: Modified and Hash keep their zero values
GridOf(ts, t) ==
    IF t.err # NoErr THEN [tile |-> NilTile, err |-> t.err]
    ELSE [tile |-> [nil |-> FALSE, Data |-> t.data, Format |-> ts.UTFGridCompression,
                    Modified |-> ZeroTime, Hash |-> ZeroSum],
          err |-> NoErr]

ModelGetGridAt(ts, p, fails) ==
    IF p.err # NoErr THEN [tile |-> NilTile, err |-> p.err]
    ELSE GridOf(ts, GetGrid(ts, p.tc, fails))

ModelGetGridIn(g, z, x, y, fails) ==
    IF g.err # NoErr THEN [tile |-> NilTile, err |-> g.err]
    ELSE ModelGetGridAt(g.ts, ParseTileCoord(z, x, y), fails)

\* model.GetGrid: (tile, err)
ModelGetGrid(id, z, x, y, fails) == ModelGetGridIn(GetTileset(id), z, x, y, fails)

ErrNoEntity == "entity does not exist"

TileJSONOf(ts, m) ==
    IF m.err # NoErr THEN [tj |-> NilMetadata, grids |-> FALSE, err |-> m.err]
    ELSE [tj |-> m.md, grids |-> ts.UTFGrid, err |-> NoErr]

GetTileJSONIn(g, fails) ==
    IF g.err # NoErr THEN [tj |-> NilMetadata, grids |-> FALSE, err |-> ErrNoEntity]
    ELSE TileJSONOf(g.ts, GetMetadata(Database(g.ts), fails = 1))

\* model.GetTileJSON: (tj, err); a missing tileset is wrapped in ErrNoEntity
GetTileJSON(id, fails) == GetTileJSONIn(GetTileset(id), fails)

-----------------------------------------------------------------------------
(* package controller and package view *)

StatusOK == 200

StatusNoContent == 204

StatusNotModified == 304

StatusBadRequest == 400

StatusNotFound == 404

StatusInternalServerError == 500

\* a request header: absent, or present with a text
Absent == [absent |-> TRUE, text |-> <<>>]

Header(text) == [absent |-> FALSE, text |-> text]

\* an entity tag: absent, or the hex text of a hash
NoTag == [absent |-> TRUE, sum |-> ZeroSum]

Tag(sum) == [absent |-> FALSE, sum |-> sum]

ParseTimeValue(p) ==
    IF p.err # NoErr \/ ~U64Small(p.val) THEN [t |-> ZeroTime, err |-> "parsing time"]
    ELSE [t |-> Time(ToNat(p.val)), err |-> NoErr]

\* time.Parse(http.TimeFormat, header), the time format written as decimal seconds
ParseTime(text) == ParseTimeValue(ParseUint(text, 64))

\* TileFormat.ContentType
ContentType(fmt) ==
    CASE fmt = PNG -> "image/png"
      [] fmt = JPG -> "image/jpeg"
      [] fmt = PBF -> "application/x-protobuf"
      [] fmt = WEBP -> "image/webp"
      [] OTHER -> ""

\* what a handler wrote: status, body and headers, with the error it handled
Response(status, err, body, ctype, cenc, modified, etag) ==
    [pc |-> "ret", status |-> status, err |-> err, body |-> body, ctype |-> ctype,
     cenc |-> cenc, lastModified |-> modified, etag |-> etag]

\* a response header holding a time: not set, or set to t
NotSet == [set |-> FALSE, t |-> ZeroTime]

SetTo(t) == [set |-> TRUE, t |-> t]

ErrorResponse(status, err) == Response(status, err, EmptyBlob, "", "", NotSet, NoTag)

\* the switch of TileGET on the error of the model call
TileErrorStatus(err) ==
    CASE err = ErrTilesetNotFound -> StatusNotFound
      [] err \in {ErrTileNotFound, ErrNoUTFGrid} -> StatusNoContent
      [] err = ErrInvalidTileCoord -> StatusBadRequest
      [] OTHER -> StatusInternalServerError

\* view.Tile / view.Grid
ViewTile(tile) ==
    Response(StatusOK, NoErr, tile.Data, ContentType(tile.Format),
             IF tile.Format = PBF THEN "gzip" ELSE "", SetTo(tile.Modified), Tag(tile.Hash))

ViewGrid(tile) ==
    Response(StatusOK, NoErr, tile.Data, "application/json",
             IF tile.Format = ZLIB THEN "deflate" ELSE "gzip", SetTo(tile.Modified), Tag(tile.Hash))

\* TileGET after a successful model call: the conditional-request headers, then the view
TileGETSince(isGrid, tile, ims, inm, since) ==
    IF ~ims.absent /\ Len(ims.text) > 0 /\ since.err # NoErr
    THEN ErrorResponse(StatusBadRequest, NoErr)
    ELSE IF ~ims.absent /\ Len(ims.text) > 0 /\ ~After(tile.Modified, since.t)
    THEN ErrorResponse(StatusNotModified, NoErr)
    ELSE IF inm = Tag(tile.Hash)
    THEN ErrorResponse(StatusNotModified, NoErr)
    ELSE IF isGrid THEN ViewGrid(tile) ELSE ViewTile(tile)

\* the response of TileGET, with the tile the model call returned
TileGETResult(isGrid, m, ims, inm) ==
    IF m.err # NoErr THEN ErrorResponse(TileErrorStatus(m.err), m.err) @@ [tile |-> NilTile]
    ELSE TileGETSince(isGrid, m.tile, ims, inm, ParseTime(ims.text)) @@ [tile |-> m.tile]

\* TileGET for the route parameters id, z, x, y and the headers
\* If-Modified-Since (ims) and If-None-Match (inm)
TileGETResponse(id, z, x, y, ims, inm, fails) ==
    IF HasSuffix(y, ExtJson)
    THEN TileGETResult(TRUE, ModelGetGrid(id, z, x, y, fails), ims, inm)
    ELSE TileGETResult(FALSE, ModelGetTile(id, z, x, y, fails), ims, inm)

TileJSONGETResult(t) ==
    IF t.err # NoErr THEN ErrorResponse(StatusNotFound, t.err) @@ [tj |-> NilMetadata]
    ELSE Response(StatusOK, NoErr, EmptyBlob, "application/json", "", NotSet, NoTag)
            @@ [tj |-> t.tj]

\* TileJSONGET: every error of GetTileJSON is answered "Tileset not found"
TileJSONGETResponse(id, fails) == TileJSONGETResult(GetTileJSON(id, fails))

-----------------------------------------------------------------------------
(* SpecServe: requests against a loaded registry *)

Grid(z, x, y, data) == [z |-> z, x |-> x, y |-> y, data |-> data]

GridKey(z, x, y, key, json) == [z |-> z, x |-> x, y |-> y, key |-> key, json |-> json]

GoodMetadata ==
    <<NameRow, <<"maxzoom", <<"4">>>>, <<"bounds", <<"1", ",", "1", ",", "1", ",", "1">>>>>>

\* a.mbtiles: vector tiles, no interactivity relations
ArchiveA ==
    [GoodArchive(1) EXCEPT
        !.tiles = {Tile(1, 0, 0, TileBody("a100")), Tile(1, 1, 1, TileBody("a111")),
                   Tile(2, 3, 0, TileBody("a230"))},
        !.metadata = GoodMetadata]

\* b.mbtiles: zlib grids; key data at (1,0,0), none at (1,0,1), no grid at (1,1,0);
\* its maxzoom is no integer
ArchiveB ==
    [GridArchive(2) EXCEPT
        !.tiles = {Tile(1, 0, 0, TileBody("b100")), Tile(1, 0, 1, TileBody("b101")),
                   Tile(1, 1, 0, TileBody("b110"))},
        !.grids = {Grid(1, 0, 0, Blob(ZlibHead, Doc("json", "g100", {}))),
                   Grid(1, 0, 1, Blob(ZlibHead, Doc("json", "g101", {})))},
        !.gridData = <<GridKey(1, 0, 0, "k1", "{\"n\":1}"), GridKey(1, 0, 0, "k2", "{\"n\":2}"),
                       GridKey(1, 0, 0, "k1", "oops")>>,
        !.metadata = <<NameRow, <<"maxzoom", <<"a">>>>>>,
        !.modTime = 4]

\* c.mbtiles: gzip grids; the grid at (1,1,1) is no JSON; no maxzoom row
ArchiveC ==
    [GridArchive(3) EXCEPT
        !.gridSample = Row(Blob(GzipHead, Doc("json", "g", {}))),
        !.tiles = {Tile(1, 0, 0, Blob(<<>>, Doc("pbf", "", {}))), Tile(1, 1, 1, TileBody("c111"))},
        !.grids = {Grid(1, 0, 0, Blob(GzipHead, Doc("json", "g100", {<<"old", "{}">>}))),
                   Grid(1, 1, 1, Blob(GzipHead, Doc("text", "g111", {})))},
        !.gridData = <<GridKey(1, 0, 0, "k1", "{\"n\":1}"), GridKey(1, 1, 1, "k1", "{\"n\":2}")>>,
        !.metadata = <<NameRow>>,
        !.modTime = 5]

\* d.mbtiles: the five interactivity relations, with grids stored as PNG images
ArchiveD ==
    [GridArchive(4) EXCEPT
        !.gridSample = Row(Blob(PngHead, Doc("png", "g", {}))),
        !.tiles = {Tile(1, 0, 0, TileBody("d100"))},
        !.grids = {Grid(1, 0, 0, Blob(PngHead, Doc("png", "g100", {}))),
                   Grid(1, 1, 0, Blob(PngHead, Doc("png", "g110", {})))},
        !.gridData = <<GridKey(1, 0, 0, "k1", "{\"n\":1}")>>,
        !.metadata = GoodMetadata,
        !.modTime = 6]

ServeDirectories ==
    {<<ArchiveA, ArchiveB, ArchiveC>>, <<ArchiveA>>, <<ArchiveB, ArchiveC>>, <<ArchiveA, ArchiveD>>}

\* the registry LoadTilesets leaves when every goroutine loads its own file
RECURSIVE Loaded(_, _)
Loaded(dir, k) ==
    IF k = 0 THEN {} ELSE Register(Loaded(dir, k - 1), NewTileset(dir[k]).ts)

Idle == [op |-> "none"]

InitServe ==
    /\ files \in ServeDirectories
    /\ idx = Len(files) + 1
    /\ f = Len(files)
    /\ mpc = "done"
    /\ tasks = [k \in 1..Len(files) |-> [pc |-> "exit", ts |-> NewTileset(files[k]).ts]]
    /\ ch = <<>>
    /\ closed = TRUE
    /\ wg = 0
    /\ cpc = "exit"
    /\ tilesets = Loaded(files, Len(files))
    /\ calls = [k \in 1..Len(files) |-> k]
    /\ req = Idle
    /\ res = Pending

Ids == {<<"a">>, <<"b">>, <<"c">>, <<"d">>, <<"z">>}

\* the largest column and row a request names
MaxCoord == 3

Zs == {<<"1">>, <<"2">>, <<"x">>}

Xs == {Dec(0), Dec(1), Dec(MaxCoord)}

Ys == {Dec(0), Dec(1), Dec(MaxCoord), <<"0">> \o ExtPng, <<"0">> \o ExtJson, <<"1">> \o ExtJson,
       <<"x">> \o ExtJson}

Sinces == {Absent, Header(<<"1">>), Header(<<"2">>), Header(<<"3">>), Header(<<"x">>)}

Matches == {NoTag, Tag(ZeroSum), Tag(Sum(TileBody("a100")))}

\* the storage query of the request that fails: none, the first, the second
Failures == {0, 1, 2}

\* GET /v1/:id/tiles/:z/:x/:y
TileGET ==
    /\ req = Idle
    /\ \E id \in Ids, z \in Zs, x \in Xs, y \in Ys, ims \in Sinces, inm \in Matches, fails \in Failures :
          /\ req' = [op |-> "TileGET", id |-> id, z |-> z, x |-> x, y |-> y,
                     ims |-> ims, inm |-> inm, fails |-> fails]
          /\ res' = TileGETResponse(id, z, x, y, ims, inm, fails)
    /\ UNCHANGED loadVars

\* GET /v1/:id
TileJSONGET ==
    /\ req = Idle
    /\ \E id \in Ids, fails \in Failures :
          /\ req' = [op |-> "TileJSONGET", id |-> id, fails |-> fails]
          /\ res' = TileJSONGETResponse(id, fails)
    /\ UNCHANGED loadVars

\* the coordinates ParseTileCoord returns for the route parameters
GridCoords ==
    {ParseTileCoord(z, x, y).tc : z \in Zs \ {<<"x">>}, x \in Xs, y \in {Dec(0), Dec(1), Dec(MaxCoord)}}

\* ts.GetGrid(tc) on a registered tileset, as model.GetGrid calls it
GetGridCall ==
    /\ req = Idle
    /\ \E id \in Ids, tc \in GridCoords, fails \in Failures :
          /\ MapHas(tilesets, id)
          /\ req' = [op |-> "GetGrid", id |-> id, tc |-> tc, fails |-> fails]
          /\ res' = [pc |-> "ret"] @@ GetGrid(MapGet(tilesets, id), tc, fails)
    /\ UNCHANGED loadVars

\* the response has been sent; the server waits for the next request
Served ==
    /\ req # Idle
    /\ req' = Idle
    /\ res' = Pending
    /\ UNCHANGED loadVars

NextServe == TileGET \/ TileJSONGET \/ GetGridCall \/ Served

SpecServe == InitServe /\ [][NextServe]_vars

-----------------------------------------------------------------------------
(* Claims about serving *)

\* the small coordinates the requests are written from
Coords == 0..MaxCoord

\* the archive registered under id
ArchiveOf(id) == Database(MapGet(tilesets, id))

\* the rows of relation rel stored at zoom zn, column xn and the row that the
\* caller-facing row yn converts to
StoredAt(rel, zn, xn, yn) == {r \in rel : r.z = zn /\ r.x = xn /\ r.y = Pow2(zn) - 1 - yn}

\* the request is a tile request for zoom zn, column xn, row yn of a registered tileset
TileRequest(zn, xn, yn) ==
    /\ req.op = "TileGET"
    /\ MapHas(tilesets, req.id)
    /\ req.z = Dec(zn) /\ req.x = Dec(xn)
    /\ req.y \in {Dec(yn), Dec(yn) \o ExtPng}
    /\ xn < Pow2(zn) /\ yn < Pow2(zn)

\* the request is a grid request for zoom zn, column xn, row yn of a registered tileset
GridRequest(zn, xn, yn) ==
    /\ req.op = "TileGET"
    /\ MapHas(tilesets, req.id)
    /\ req.z = Dec(zn) /\ req.x = Dec(xn)
    /\ req.y = Dec(yn) \o ExtJson
    /\ xn < Pow2(zn) /\ yn < Pow2(zn)

\* C10: GetTile for a coordinate without a row in tiles returns the
\* tile-not-found error, never a success; a successful GetTile returns the
\* payload stored at (zoom, column, converted row).
C10_TileNotFoundOrStored ==
    \A zn \in Coords, xn \in Coords, yn \in Coords :
        TileRequest(zn, xn, yn) =>
            LET rows == StoredAt(ArchiveOf(req.id).tiles, zn, xn, yn)
            IN  /\ rows = {} => res.err # NoErr /\ res.tile.nil
                /\ (rows = {} /\ req.fails # 1) => res.err = ErrTileNotFound
                /\ res.err = NoErr => \E r \in rows : res.tile.Data = r.data

C10_Witness ==
    /\ TileRequest(1, 0, 0)
    /\ req.id = <<"a">>
    /\ req.fails = 0
    /\ res.err = ErrTileNotFound

\* C4: GetGrid on an interactivity-enabled Tileset for a coordinate without a
\* row in the grid view fails with the tile-not-found error, which the HTTP
\* layer answers as a missing tile or grid, not with an opaque storage error.
C4_MissingGridNotFound ==
    \A zn \in Coords, xn \in Coords, yn \in Coords :
        (/\ GridRequest(zn, xn, yn)
         /\ MapGet(tilesets, req.id).UTFGrid
         /\ req.fails = 0
         /\ StoredAt(ArchiveOf(req.id).grids, zn, xn, yn) = {})
            => res.err = ErrTileNotFound /\ res.status = StatusNoContent

\* the key rows of archive a at zoom zn, column xn, caller-facing row yn
KeyRowsAt(a, zn, xn, yn) ==
    {k \in 1..Len(a.gridData) :
        a.gridData[k].z = zn /\ a.gridData[k].x = xn /\ a.gridData[k].y = Pow2(zn) - 1 - yn}

\* C3: GetGrid for a coordinate with auxiliary rows returns bytes that inflate,
\* with the interactivity codec of the Tileset, to a JSON object whose "data"
\* member maps every supplied key to its parsed fragment: the merged
\* document, not the stored payload.
C3_GridCarriesKeyData ==
    \A zn \in Coords, xn \in Coords, yn \in Coords :
        (/\ GridRequest(zn, xn, yn)
         /\ res.err = NoErr
         /\ KeyRowsAt(ArchiveOf(req.id), zn, xn, yn) # {})
            => LET a == ArchiveOf(req.id)
                   z == Inflate(MapGet(tilesets, req.id).UTFGridCompression, res.tile.Data)
               IN  /\ z.err = NoErr
                   /\ z.doc.kind = "json"
                   /\ \A k \in KeyRowsAt(a, zn, xn, yn) :
                         \E p \in z.doc.data : p[1] = a.gridData[k].key
                   /\ \A p \in z.doc.data :
                         \E k \in KeyRowsAt(a, zn, xn, yn) :
                             /\ p[1] = a.gridData[k].key
                             /\ p[2] = ParsedFragment(a.gridData[k].json)

\* C5: a request to the tileset endpoints that ends in an error is answered
\* with the status of the error's class: 404 for a missing tileset, 204 for a
\* missing tile or grid or no interactivity, 400 for an invalid coordinate,
\* 500 for any other error.
C5_StatusByErrorClass ==
    (req.op \in {"TileGET", "TileJSONGET"} /\ res.err # NoErr) =>
        res.status = CASE res.err \in {ErrTilesetNotFound, ErrNoEntity} -> StatusNotFound
                       [] res.err \in {ErrTileNotFound, ErrNoUTFGrid} -> StatusNoContent
                       [] res.err = ErrInvalidTileCoord -> StatusBadRequest
                       [] OTHER -> StatusInternalServerError

\* C11: GetGrid on a Tileset loaded without interactivity support (UTFGrid
\* false) fails with the no-interactivity error for every coordinate, before
\* any storage query is issued: no query is counted, a failing storage layer
\* does not change the outcome, and the HTTP layer sees the same error.
C11_NoGridNoQuery ==
    /\ (req.op = "GetGrid" /\ ~MapGet(tilesets, req.id).UTFGrid) =>
            /\ res.err = ErrNoUTFGrid
            /\ res.queries = 0
            /\ res.data = EmptyBlob
    /\ \A zn \in Coords, xn \in Coords, yn \in Coords :
            (GridRequest(zn, xn, yn) /\ ~MapGet(tilesets, req.id).UTFGrid) =>
                res.err = ErrNoUTFGrid /\ res.tile.nil

C11_Witness ==
    /\ req.op = "GetGrid"
    /\ req.id = <<"a">>
    /\ req.tc = TC(1, U64(0), U64(1))
    /\ req.fails = 1
    /\ res.err = ErrNoUTFGrid

-----------------------------------------------------------------------------
(* SpecConcurrent: requests served by concurrent handler goroutines *)

\* the most requests in flight at once
MaxInFlight == 2

\* the requests the concurrent clients send
ConcurrentRequests ==
    {[op |-> "TileGET", id |-> id, z |-> <<"1">>, x |-> <<"0">>, y |-> y,
      ims |-> Absent, inm |-> NoTag, fails |-> 0] :
        id \in Ids, y \in {<<"0">>, <<"0">> \o ExtJson}}
    \cup {[op |-> "TileJSONGET", id |-> id, fails |-> 0] : id \in Ids}

\* a handler goroutine at the start of its model call
Handler(r) == [r |-> r, pc |-> "lookup", g |-> [ts |-> NilTileset, err |-> NoErr]]

InitConcurrent ==
    /\ files \in ServeDirectories
    /\ idx = Len(files) + 1
    /\ f = Len(files)
    /\ mpc = "done"
    /\ tasks = [k \in 1..Len(files) |-> [pc |-> "exit", ts |-> NewTileset(files[k]).ts]]
    /\ ch = <<>>
    /\ closed = TRUE
    /\ wg = 0
    /\ cpc = "exit"
    /\ tilesets = Loaded(files, Len(files))
    /\ calls = [k \in 1..Len(files) |-> k]
    /\ req = <<>>
    /\ res = <<>>

\* net/http starts a goroutine for a request while others are being handled
Accept ==
    /\ Len(req) < MaxInFlight
    /\ \E r \in ConcurrentRequests :
          /\ req' = Append(req, Handler(r))
          /\ res' = Append(res, Pending)
    /\ UNCHANGED loadVars

\* a lookup that leaves a nil entry in the registry under an id it did not hold
LookupInserting(i) ==
    /\ req[i].pc = "lookup"
    /\ req' = [req EXCEPT ![i].pc = "read", ![i].g = GetTileset(req[i].r.id)]
    /\ tilesets' = IF MapHas(tilesets, req[i].r.id) THEN tilesets
                   ELSE MapPut(tilesets, req[i].r.id, NilTileset)
    /\ UNCHANGED <<files, idx, f, mpc, tasks, ch, closed, wg, cpc, calls, res>>

\* ts, err := mbtiles.GetTileset(id): handler i reads the registry
Lookup(i) ==
    /\ req[i].pc = "lookup"
    /\ req' = [req EXCEPT ![i].pc = "read", ![i].g = GetTileset(req[i].r.id)]
    /\ UNCHANGED res
    /\ UNCHANGED loadVars

\* the rest of the handler, on the Tileset the lookup returned
HandlerResponse(r, g) ==
    IF r.op = "TileJSONGET" THEN TileJSONGETResult(GetTileJSONIn(g, r.fails))
    ELSE IF HasSuffix(r.y, ExtJson)
    THEN TileGETResult(TRUE, ModelGetGridIn(g, r.z, r.x, r.y, r.fails), r.ims, r.inm)
    ELSE TileGETResult(FALSE, ModelGetTileIn(g, r.z, r.x, r.y, r.fails), r.ims, r.inm)

\* handler i reads the archive of its Tileset and writes the response
Read(i) ==
    /\ req[i].pc = "read"
    /\ req' = [req EXCEPT ![i].pc = "done"]
    /\ res' = [res EXCEPT ![i] = HandlerResponse(req[i].r, req[i].g)]
    /\ UNCHANGED loadVars

\* the sequence s without its element i
Without(s, i) == [k \in 1..(Len(s) - 1) |-> IF k < i THEN s[k] ELSE s[k + 1]]

\* handler i returns
Return(i) ==
    /\ req[i].pc = "done"
    /\ req' = Without(req, i)
    /\ res' = Without(res, i)
    /\ UNCHANGED loadVars

NextConcurrent ==
    \/ Accept
    \/ \E i \in 1..Len(req) : Lookup(i)
    \/ \E i \in 1..Len(req) : Read(i)
    \/ \E i \in 1..Len(req) : Return(i)

SpecConcurrent == InitConcurrent /\ [][NextConcurrent]_vars

\* C12: after LoadTilesets has returned, no step of any request handler, in
\* any interleaving of the requests in flight, changes the registry mapping
\* or a registered Tileset's Filename, Format, Timestamp, UTFGrid or
\* UTFGridCompression.
C12_RegistryFrozen == [][mpc = "done" => tilesets' = tilesets]_vars

\* two handlers interleave: the first has answered, the second holds the
\* Tileset it looked up and has not read its archive yet
C12_Witness ==
    /\ Len(req) = 2
    /\ req[1].pc = "done" /\ res[1].status = StatusOK
    /\ req[2].pc = "read" /\ ~req[2].g.ts.nil
    /\ req[1].r.id = req[2].r.id
    /\ tilesets = Loaded(files, Len(files))
    /\ tilesets # {}

\* C14: every registered Tileset with interactivity enabled (UTFGrid true) has
\* an interactivity codec that is zlib or gzip, so GetGrid on a registered
\* Tileset never reaches the "unknown grid compression" failure; a sampled
\* grid payload detected as png, jpg or webp does not yield an
\* interactivity-enabled Tileset.
C14_GridCodecZlibOrGzip ==
    /\ \A p \in tilesets : p[2].UTFGrid => p[2].UTFGridCompression \in {ZLIB, GZIP}
    /\ req.op = "GetGrid" => res.err # "unknown grid compression"
    /\ \A k \in 1..Len(files) :
          (/\ files[k].gridRelations = 5
           /\ files[k].gridSample.st = "row"
           /\ detectTileFormat(files[k].gridSample.data).format \in {PNG, JPG, WEBP})
              => \A p \in tilesets : p[2].database = files[k].name => ~p[2].UTFGrid

\* the request is a tile or grid request that the model call served and that
\* carries a valid If-Modified-Since header and no If-None-Match header
SinceRequest ==
    /\ req.op = "TileGET"
    /\ ~res.tile.nil
    /\ ~req.ims.absent /\ Len(req.ims.text) > 0
    /\ ParseTime(req.ims.text).err = NoErr
    /\ req.inm = NoTag

\* C16: for a successful tile or grid request carrying a valid
\* If-Modified-Since header, TileGET answers 304 Not Modified only when the
\* recorded archive modification time of the served Tileset is not after the
\* supplied instant, and otherwise sends the payload with Last-Modified equal
\* to that modification time; grid (.json) requests included.
C16_NotModifiedByArchiveTime ==
    SinceRequest =>
        LET modified == Time(MapGet(tilesets, req.id).Timestamp)
        IN  IF After(modified, ParseTime(req.ims.text).t)
            THEN /\ res.status = StatusOK
                 /\ res.body = res.tile.Data
                 /\ res.lastModified = SetTo(modified)
            ELSE res.status = StatusNotModified

=============================================================================
